---- MODULE Spec2Model ----
(***************************************************************************)
(* Model of main.py: the invitation-code hub.                              *)
(*                                                                         *)
(* Every request is handled by its own thread with its own ORM session.    *)
(* A request is a process; its atomic steps are the accesses to the        *)
(* shared state: one SQL statement (or one flush+commit) against the       *)
(* store, one read or write of the process-wide LIST_CACHE, one read of    *)
(* the wall clock.  Statements of other sessions see committed rows only   *)
(* (READ COMMITTED on the server backend; on SQLite the DBAPI opens a      *)
(* transaction at the first INSERT/UPDATE, so every SELECT reads the       *)
(* latest committed state and the flush+commit runs under the database     *)
(* write lock).                                                            *)
(***************************************************************************)
EXTENDS Integers, Sequences, FiniteSets, TLC

\* ------------------------------------------------------------------------
\* Program constants (main.py, "Configuration")
\* ------------------------------------------------------------------------
DAILY_POST_LIMIT == 5
DAILY_CLAIM_LIMIT == 3
INITIAL_USES == 10
MAX_LIST_LIMIT == 100
CACHE_TTL == 3

\* ------------------------------------------------------------------------
\* Bounds of the model
\* ------------------------------------------------------------------------
NumUsers == 3          \* identities that send requests: 1..NumUsers
NumCodeIds == 2        \* ids a request may name: 1..NumCodeIds
NumClaimReqs == 2      \* claim requests of one run (claim arbitration)
NumCreateReqs == 2     \* create requests of one run (create arbitration)
NumListReqs == 4       \* list requests of one run (cache)
MaxSeedUses == 1       \* remaining_uses of the stored code at start: 1..MaxSeedUses
MaxTicks == 1          \* times the wall clock is seen to advance

Users == 1..NumUsers
CodeIds == 1..NumCodeIds
\* the slots of the requests in flight, per operation
ClaimProcs == 1..NumClaimReqs
CreateProcs == (NumClaimReqs + 1)..(NumClaimReqs + NumCreateReqs)
ListProcs == (NumClaimReqs + NumCreateReqs + 1)..(NumClaimReqs + NumCreateReqs + NumListReqs)
Procs == ClaimProcs \cup CreateProcs \cup ListProcs

\* Identities and ids of rows that were stored before the service started.
HistUser(i) == 100 + i
FillerId(i) == 100 + i
\* the stored code, its creator, and the user with claims made today
Seed == [id |-> 1, creator |-> 1, claimant |-> 2]
SeedId == Seed.id
SeedCreator == Seed.creator
QuotaUser == Seed.claimant

\* ------------------------------------------------------------------------
\* Submitted contents, as sequences of characters
\* ------------------------------------------------------------------------
UpperChars == {"A","B","C","D","E","F","G","H","I","J","K","L","M",
               "N","O","P","Q","R","S","T","U","V","W","X","Y","Z"}
LowerChars == {"a","b","c","d","e","f","g","h","i","j","k","l","m",
               "n","o","p","q","r","s","t","u","v","w","x","y","z"}
DigitChars == {"0","1","2","3","4","5","6","7","8","9"}
SpaceChars == {" ", "\t", "\n", "\r", "\f"}
AlnumChars == UpperChars \cup LowerChars \cup DigitChars
UpperDigitChars == UpperChars \cup DigitChars

ContentSeeded == <<"A","B","1","2","3","4"," ","x",":","/","C","1">>
ContentNoisy == <<"h","i"," ">> \o ContentSeeded \o <<"!">>
ContentOther == <<"X","Y","0","0","0","1"," ","q","7",":","/","Z","z">>
ContentBad == <<"h","e","l","l","o"," ","w","o","r","l","d">>
Contents == {ContentNoisy, ContentOther, ContentBad}

\* Length of the longest run of characters of class cls in s from position i.
RECURSIVE Run(_, _, _)
Run(s, i, cls) ==
    IF i > Len(s) \/ s[i] \notin cls THEN 0 ELSE 1 + Run(s, i + 1, cls)

\* re.match of [A-Z]{2}\d{4}\s[a-zA-Z0-9]+:\/[A-Z0-9]+ at position i:
\* the position of the last matched character, 0 when there is no match.
\* Both repetitions are greedy; ':' is outside [a-zA-Z0-9], so giving back
\* characters of the first repetition never yields a match.
MatchEnd(s, i) ==
    LET a == i + 7
        n1 == Run(s, a, AlnumChars)
        c == a + n1
        n2 == Run(s, c + 2, UpperDigitChars)
    IN  IF /\ i + 6 <= Len(s)
           /\ s[i] \in UpperChars /\ s[i + 1] \in UpperChars
           /\ \A j \in (i + 2)..(i + 5) : s[j] \in DigitChars
           /\ s[i + 6] \in SpaceChars
           /\ n1 >= 1
           /\ c + 1 <= Len(s) /\ s[c] = ":" /\ s[c + 1] = "/"
           /\ n2 >= 1
        THEN c + 1 + n2
        ELSE 0

\* re.search(...).group(0): the leftmost match, <<>> when there is none
\* (a match is never empty).
ExtractCore(s) ==
    LET starts == {i \in 1..Len(s) : MatchEnd(s, i) # 0}
    IN  IF starts = {} THEN <<>>
        ELSE LET i == CHOOSE x \in starts : \A y \in starts : x <= y
             IN  SubSeq(s, i, MatchEnd(s, i))


\* ------------------------------------------------------------------------
\* State
\* ------------------------------------------------------------------------
VARIABLES
    backend,     \* engine.name: "sqlite" or "postgresql"
    codes,       \* table codes: id -> row
    claims,      \* table claims: rows in order of their surrogate id
    LIST_CACHE,  \* the process-wide cache: [data, timestamp]
    clock,       \* the wall clock, in seconds (time.time(), datetime.now())
    today,       \* the calendar day of the wall clock (get_today_str())
    proc,        \* the requests: per slot, the handler's position and locals
    budget,      \* requests that may still arrive, per operation
    fresh,       \* history: ids whose create returned and no list call began since
    lastHit,     \* history: what the last cache hit served
    sent         \* history: the last list response, where responses are recorded

vars == <<backend, codes, claims, LIST_CACHE, clock, today, proc, budget,
          fresh, lastHit, sent>>

StartTime == CACHE_TTL + 2
\* calendar days, counted from the day before the service started
Day == [yesterday |-> 0, start |-> 1]
Yesterday == Day.yesterday
StartDay == Day.start

Idle == [op |-> "none", pc |-> "idle"]
NoHit == [ts |-> -1, data |-> <<>>, stored |-> FALSE]
\* no list response yet; list responses are not recorded
NoneSent == [user |-> 0, hit |-> FALSE, response |-> <<>>]
NotRecorded == [user |-> -1, hit |-> FALSE, response |-> <<>>]

\* ------------------------------------------------------------------------
\* Store queries
\* ------------------------------------------------------------------------
\* db.query(ClaimDB).filter(user_id == u, date_str == d).count()
CountClaims(cl, u, d) ==
    Cardinality({i \in 1..Len(cl) : cl[i].user_id = u /\ cl[i].date_str = d})

\* db.query(CodeDB).filter(creator_id == u, date_str == d).count()
CountPosts(cs, u, d) ==
    Cardinality({id \in DOMAIN cs : cs[id].creator_id = u /\ cs[id].date_str = d})

\* rows of claims that reference code id
ClaimsOf(cl, id) == {i \in 1..Len(cl) : cl[i].code_id = id}

\* rows of claims of user u on code id
ClaimsBy(cl, u, id) ==
    {i \in 1..Len(cl) : cl[i].user_id = u /\ cl[i].code_id = id}

\* UniqueConstraint('user_id', 'code_id'): would inserting (u, id) violate it
UniqueViolationOff(cl, u, id) == FALSE
UniqueViolation(cl, u, id) == ClaimsBy(cl, u, id) # {}

\* code.remaining_uses <= 0
ExhaustedOff(uses) == uses < 0
Exhausted(uses) == uses <= 0

\* claim_count >= DAILY_CLAIM_LIMIT
ClaimQuotaReachedOff(n) == n > DAILY_CLAIM_LIMIT
ClaimQuotaReached(n) == n >= DAILY_CLAIM_LIMIT

\* post_count >= DAILY_POST_LIMIT
PostQuotaReachedOff(n) == n > DAILY_POST_LIMIT
PostQuotaReached(n) == n >= DAILY_POST_LIMIT

\* code.remaining_uses -= 1 : the value the flush writes
DecrementedTwice(uses) == uses - 2
Decremented(uses) == uses - 1

\* ------------------------------------------------------------------------
\* Rows stored before the service started
\* ------------------------------------------------------------------------
SeedCode(k) ==
    [content |-> ContentSeeded, core_code |-> ExtractCore(ContentSeeded),
     creator_id |-> SeedCreator, remaining_uses |-> k,
     created_at |-> 0, date_str |-> Yesterday]

FillerContent(i) ==
    <<"F","F","0","0","0", <<"1","2","3","4","5","6","7","8","9">>[i],
      " ","f",":","/","F">>

FillerCode(i) ==
    [content |-> FillerContent(i), core_code |-> ExtractCore(FillerContent(i)),
     creator_id |-> HistUser(0), remaining_uses |-> INITIAL_USES - 1,
     created_at |-> i, date_str |-> StartDay]

\* the claims that took the seeded code from INITIAL_USES down to k
SeedClaims(k) ==
    [i \in 1..(INITIAL_USES - k) |->
        [user_id |-> HistUser(i), code_id |-> SeedId, date_str |-> Yesterday]]

\* q claims of QuotaUser today, each on its own filler code
QuotaClaims(q) ==
    [i \in 1..q |->
        [user_id |-> QuotaUser, code_id |-> FillerId(i), date_str |-> StartDay]]

SeedCodes(k, q) ==
    [id \in {SeedId} \cup {FillerId(i) : i \in 1..q} |->
        IF id = SeedId THEN SeedCode(k) ELSE FillerCode(id - FillerId(0))]

\* a store the service can have written on an earlier run: one code that
\* is nearly used up, and a user who is one claim short of the daily limit
InitStore ==
    \E k \in 1..MaxSeedUses :
        /\ codes = SeedCodes(k, DAILY_CLAIM_LIMIT - 1)
        /\ claims = SeedClaims(k) \o QuotaClaims(DAILY_CLAIM_LIMIT - 1)

\* the user who has posted today, and the codes of those posts
PostUser == NumUsers
PostId(i) == 200 + i

PostContent(i) ==
    <<"P","P","0","0","0", <<"1","2","3","4","5","6","7","8","9">>[i],
      " ","p",":","/","P">>

PostedCode(i) ==
    [content |-> PostContent(i), core_code |-> ExtractCore(PostContent(i)),
     creator_id |-> PostUser, remaining_uses |-> INITIAL_USES,
     created_at |-> i, date_str |-> StartDay]

PostedCodes(n) == [id \in {PostId(i) : i \in 1..n} |-> PostedCode(id - PostId(0))]

InitCommon ==
    /\ backend \in {"sqlite", "postgresql"}
    /\ InitStore
    /\ LIST_CACHE = [data |-> <<>>, timestamp |-> 0]
    /\ clock = StartTime
    /\ today = StartDay
    /\ proc = [p \in Procs |-> Idle]
    /\ fresh = {}
    /\ lastHit = NoHit

\* ------------------------------------------------------------------------
\* The wall clock
\* ------------------------------------------------------------------------
\* time passes within the day: by a second, or by the time to live of the cache
Tick ==
    /\ budget.tick > 0
    /\ budget' = [budget EXCEPT !.tick = @ - 1]
    /\ \E d \in {1, CACHE_TTL} : clock' = clock + d
    /\ UNCHANGED <<backend, codes, claims, LIST_CACHE, today, proc, fresh,
                   lastHit, sent>>

\* time passes and the calendar day changes
Midnight ==
    /\ budget.tick > 0
    /\ budget' = [budget EXCEPT !.tick = @ - 1]
    /\ today' = today + 1
    /\ clock' = clock + 1
    /\ UNCHANGED <<backend, codes, claims, LIST_CACHE, proc, fresh, lastHit,
                   sent>>

\* a request takes the lowest free slot of its operation (the slots are
\* interchangeable)
FreeSlot(p, pool) ==
    /\ p \in pool
    /\ proc[p].pc = "idle"
    /\ \A q \in pool : q < p => proc[q].pc # "idle"

\* ------------------------------------------------------------------------
\* claim_code
\* ------------------------------------------------------------------------
\* with_for_update(): the row lock of code id is held by another request
LockedByOther(p, id) ==
    \E q \in ClaimProcs \ {p} :
        proc[q].op = "claim" /\ proc[q].lock /\ proc[q].code_id = id

\* the handler returns or raises: the session closes (the row lock ends) and
\* the locals are gone
FinishHoldingLock(p, out) ==
    [proc EXCEPT ![p].pc = "done", ![p].out = out,
                 ![p].uses = 0, ![p].claim_count = 0, ![p].today = 0]
Finish(p, out) ==
    [proc EXCEPT ![p].pc = "done", ![p].out = out, ![p].lock = FALSE,
                 ![p].uses = 0, ![p].claim_count = 0, ![p].today = 0]

\* a claim request arrives; today = get_today_str()
ClaimStart(p, u, id) ==
    /\ FreeSlot(p, ClaimProcs)
    /\ budget.claim > 0
    /\ budget' = [budget EXCEPT !.claim = @ - 1]
    /\ proc' = [proc EXCEPT ![p] =
          [op |-> "claim", pc |-> "fetch", user |-> u, code_id |-> id,
           today |-> today, uses |-> 0, claim_count |-> 0, lock |-> FALSE,
           out |-> "",
           \* history: the store as it was when the request arrived
           uses0 |-> IF id \in DOMAIN codes THEN codes[id].remaining_uses ELSE -1,
           count0 |-> CountClaims(claims, u, today),
           had0 |-> ClaimsBy(claims, u, id) # {}]]
    /\ UNCHANGED <<backend, codes, claims, LIST_CACHE, clock, today, fresh,
                   lastHit, sent>>

\* the SELECT of the code row (FOR UPDATE unless SQLite) and the checks on it
ClaimFetch(p) ==
    /\ proc[p].op = "claim" /\ proc[p].pc = "fetch"
    /\ LET id == proc[p].code_id IN
         \/ /\ id \notin DOMAIN codes
            /\ proc' = Finish(p, "CodeNotFound")
         \/ /\ id \in DOMAIN codes
            /\ backend # "sqlite" => ~LockedByOther(p, id)
            /\ IF Exhausted(codes[id].remaining_uses)
                 THEN proc' = Finish(p, "Exhausted")
               ELSE IF codes[id].creator_id = proc[p].user
                 THEN proc' = Finish(p, "SelfClaimForbidden")
               ELSE proc' = [proc EXCEPT ![p].pc = "count",
                                         ![p].uses = codes[id].remaining_uses,
                                         ![p].lock = (backend # "sqlite")]
    /\ UNCHANGED <<backend, codes, claims, LIST_CACHE, clock, today, budget,
                   fresh, lastHit, sent>>

\* the count of today's claims of the caller
ClaimCount(p) ==
    /\ proc[p].op = "claim" /\ proc[p].pc = "count"
    /\ LET n == CountClaims(claims, proc[p].user, proc[p].today) IN
         IF ClaimQuotaReached(n)
           THEN proc' = Finish(p, "ClaimQuotaExceeded")
           ELSE proc' = [proc EXCEPT ![p].pc = "commit", ![p].claim_count = n]
    /\ UNCHANGED <<backend, codes, claims, LIST_CACHE, clock, today, budget,
                   fresh, lastHit, sent>>

\* db.add(new_claim); code.remaining_uses -= 1; db.commit(); db.refresh(code):
\* the flush sends the INSERT and UPDATE codes SET remaining_uses = <value
\* read> - 1, then COMMIT makes both visible at once; db.close() ends the row
\* lock.  Any exception other than IntegrityError, raised by the commit or by
\* the refresh that follows it, is answered with "busy".
ClaimCommit(p) ==
    /\ proc[p].op = "claim" /\ proc[p].pc = "commit"
    /\ LET u == proc[p].user
           id == proc[p].code_id
       IN  \/ /\ UniqueViolation(claims, u, id)            \* IntegrityError
              /\ proc' = Finish(p, "AlreadyClaimed")
              /\ UNCHANGED <<codes, claims>>
           \/ /\ ~UniqueViolation(claims, u, id)
              /\ claims' = Append(claims,
                    [user_id |-> u, code_id |-> id, date_str |-> proc[p].today])
              /\ codes' = [codes EXCEPT ![id].remaining_uses =
                                            Decremented(proc[p].uses)]
              /\ \/ proc' = Finish(p, "ok")
                 \/ proc' = Finish(p, "ClaimSystemBusy")   \* the refresh raises
           \/ /\ proc' = Finish(p, "ClaimSystemBusy")      \* the commit raises
              /\ UNCHANGED <<codes, claims>>
    /\ UNCHANGED <<backend, LIST_CACHE, clock, today, budget, fresh, lastHit,
                   sent>>

\* ------------------------------------------------------------------------
\* create_code
\* ------------------------------------------------------------------------
\* the handler returns or raises: the locals are gone
Returned(r, out) ==
    [op |-> "create", pc |-> "done", user |-> r.user, code_id |-> r.code_id,
     content |-> r.content, out |-> out]

Return(p, out) == [proc EXCEPT ![p] = Returned(proc[p], out)]

\* a create request arrives: today, the count of today's posts, the pattern
CreateStart(p, u, id, content) ==
    /\ FreeSlot(p, CreateProcs)
    /\ budget.create > 0
    /\ budget' = [budget EXCEPT !.create = @ - 1]
    /\ LET core == ExtractCore(content)
           out == IF PostQuotaReached(CountPosts(codes, u, today))
                    THEN "PostQuotaExceeded"
                  ELSE IF core = <<>> THEN "InvalidFormat"
                  ELSE ""
           new == [op |-> "create", pc |-> "dedup", user |-> u, code_id |-> id,
                   content |-> content, core_code |-> core, today |-> today,
                   created_at |-> 0, out |-> ""]
       IN  proc' = [proc EXCEPT ![p] = IF out = "" THEN new ELSE Returned(new, out)]
    /\ UNCHANGED <<backend, codes, claims, LIST_CACHE, clock, today, fresh,
                   lastHit, sent>>

\* an active code with this core_code exists
ExistingCore(cs, core) ==
    \E id \in DOMAIN cs : cs[id].core_code = core /\ cs[id].remaining_uses > 0

\* the existence check on core_code, then the new row is built
CreateDedup(p) ==
    /\ proc[p].op = "create" /\ proc[p].pc = "dedup"
    /\ IF ExistingCore(codes, proc[p].core_code)
         THEN proc' = Return(p, "DuplicateCoreCode")
         ELSE proc' = [proc EXCEPT ![p].pc = "insert", ![p].created_at = clock]
    /\ UNCHANGED <<backend, codes, claims, LIST_CACHE, clock, today, budget,
                   fresh, lastHit, sent>>

\* db.add(new_code); db.commit(): the primary key rejects a second row of the id
CreateCommit(p) ==
    /\ proc[p].op = "create" /\ proc[p].pc = "insert"
    /\ LET id == proc[p].code_id IN
         \/ /\ id \in DOMAIN codes                         \* IntegrityError
            /\ proc' = Return(p, "DuplicateId")
            /\ UNCHANGED codes
         \/ /\ id \notin DOMAIN codes
            /\ codes' = codes @@ (id :>
                  [content |-> proc[p].content, core_code |-> proc[p].core_code,
                   creator_id |-> proc[p].user, remaining_uses |-> INITIAL_USES,
                   created_at |-> proc[p].created_at, date_str |-> proc[p].today])
            /\ proc' = [proc EXCEPT ![p].pc = "invalidate"]
    /\ UNCHANGED <<backend, claims, LIST_CACHE, clock, today, budget, fresh,
                   lastHit, sent>>

\* LIST_CACHE["timestamp"] = 0, and the request returns the new code
CreateInvalidate(p) ==
    /\ proc[p].op = "create" /\ proc[p].pc = "invalidate"
    /\ LIST_CACHE' = [LIST_CACHE EXCEPT !.timestamp = 0]
    /\ proc' = Return(p, "ok")
    /\ fresh' = fresh \cup {proc[p].code_id}
    /\ lastHit' = NoHit
    /\ UNCHANGED <<backend, codes, claims, clock, today, budget, sent>>

\* ------------------------------------------------------------------------
\* get_codes
\* ------------------------------------------------------------------------
ActiveIds(cs) == {id \in DOMAIN cs : cs[id].remaining_uses > 0}
AllIds(cs) == DOMAIN cs

\* order_by(created_at.desc()): every order the store may return the rows of
\* S in (rows of equal created_at come in any order)
RECURSIVE NewestFirst(_, _)
NewestFirst(cs, S) ==
    IF S = {} THEN {<<>>}
    ELSE UNION {{<<x>> \o r : r \in NewestFirst(cs, S \ {x})} :
                  x \in {y \in S : \A z \in S : cs[y].created_at >= cs[z].created_at}}

\* .limit(MAX_LIST_LIMIT)
Limit(q) == SubSeq(q, 1, IF Len(q) < MAX_LIST_LIMIT THEN Len(q) ELSE MAX_LIST_LIMIT)

\* codes_objs.sort(key=created_at): stable, ascending
RECURSIVE SortOldestFirst(_, _)
SortOldestFirst(cs, q) ==
    IF q = <<>> THEN <<>>
    ELSE LET r == SortOldestFirst(cs, SubSeq(q, 1, Len(q) - 1))
             x == q[Len(q)]
             n == Cardinality({i \in 1..Len(r) :
                                 cs[r[i]].created_at <= cs[x].created_at})
         IN  SubSeq(r, 1, n) \o <<x>> \o SubSeq(r, n + 1, Len(r))

CodeView(cs, id) ==
    [id |-> id, content |-> cs[id].content,
     remainingUses |-> cs[id].remaining_uses,
     createdAt |-> cs[id].created_at * 1000,
     creator_id |-> cs[id].creator_id]

\* the rows the refresh selects: remaining_uses > 0
ListedIdsAll(cs) == AllIds(cs)
ListedIds(cs) == ActiveIds(cs)

\* the listings a refresh may compute from the store
ListActive(cs) ==
    {LET r == SortOldestFirst(cs, Limit(q))
     IN  [i \in 1..Len(r) |-> CodeView(cs, r[i])] : q \in NewestFirst(cs, ListedIds(cs))}

\* now - LIST_CACHE["timestamp"] < CACHE_TTL
CacheValid(now, ts) == now - ts < CACHE_TTL

\* what a cache hit serves
ServedOnHitFromStore(cache, cs) == CHOOSE d \in ListActive(cs) : TRUE
ServedOnHit(cache, cs) == cache.data

\* the per-caller view of a listing
PersonalizeForAnyone(data, cl, u) ==
    [i \in 1..Len(data) |->
        [id |-> data[i].id, content |-> data[i].content,
         remainingUses |-> data[i].remainingUses,
         createdAt |-> data[i].createdAt,
         isOwn |-> (data[i].creator_id = u),
         isUsed |-> (ClaimsOf(cl, data[i].id) # {})]]
Personalize(data, cl, u) ==
    [i \in 1..Len(data) |->
        [id |-> data[i].id, content |-> data[i].content,
         remainingUses |-> data[i].remainingUses,
         createdAt |-> data[i].createdAt,
         isOwn |-> (data[i].creator_id = u),
         isUsed |-> (ClaimsBy(cl, u, data[i].id) # {})]]

Ids(data) == {data[i].id : i \in 1..Len(data)}

\* a list request arrives: now = time.time(), and the timestamp is compared
ListStart(p) ==
    /\ FreeSlot(p, ListProcs)
    /\ budget.list > 0
    /\ budget' = [budget EXCEPT !.list = @ - 1]
    /\ proc' = [proc EXCEPT ![p] =
          [op |-> "list",
           pc |-> IF CacheValid(clock, LIST_CACHE.timestamp) THEN "hit" ELSE "query",
           now |-> clock, data |-> <<>>,
           \* history
           ts |-> LIST_CACHE.timestamp,
           hit |-> CacheValid(clock, LIST_CACHE.timestamp),
           mustSee |-> fresh,
           dead0 |-> AllIds(codes) \ ActiveIds(codes),
           prev |-> NoHit]]
    /\ fresh' = {}
    /\ UNCHANGED <<backend, codes, claims, LIST_CACHE, clock, today, lastHit,
                   sent>>

\* codes_data = LIST_CACHE["data"]
ListHit(p) ==
    /\ proc[p].op = "list" /\ proc[p].pc = "hit"
    /\ proc' = [proc EXCEPT ![p].data = ServedOnHit(LIST_CACHE, codes),
                            ![p].pc = "personalize",
                            ![p].prev = lastHit]
    /\ lastHit' = [ts |-> proc[p].ts, data |-> ServedOnHit(LIST_CACHE, codes),
                   stored |-> FALSE]
    /\ UNCHANGED <<backend, codes, claims, LIST_CACHE, clock, today, budget,
                   fresh, sent>>

\* the query of the active codes, newest first, capped, then sorted by age
ListQuery(p) ==
    /\ proc[p].op = "list" /\ proc[p].pc = "query"
    /\ \E d \in ListActive(codes) :
         proc' = [proc EXCEPT ![p].data = d, ![p].pc = "storeData"]
    /\ UNCHANGED <<backend, codes, claims, LIST_CACHE, clock, today, budget,
                   fresh, lastHit, sent>>

\* LIST_CACHE["data"] = codes_data
ListStoreData(p) ==
    /\ proc[p].op = "list" /\ proc[p].pc = "storeData"
    /\ LIST_CACHE' = [LIST_CACHE EXCEPT !.data = proc[p].data]
    /\ proc' = [proc EXCEPT ![p].pc = "storeTs"]
    /\ lastHit' = [lastHit EXCEPT !.stored = TRUE]
    /\ UNCHANGED <<backend, codes, claims, clock, today, budget, fresh, sent>>

\* LIST_CACHE["timestamp"] = now
ListStoreTs(p) ==
    /\ proc[p].op = "list" /\ proc[p].pc = "storeTs"
    /\ LIST_CACHE' = [LIST_CACHE EXCEPT !.timestamp = proc[p].now]
    /\ proc' = [proc EXCEPT ![p].pc = "personalize"]
    /\ lastHit' = [lastHit EXCEPT !.stored = TRUE]
    /\ UNCHANGED <<backend, codes, claims, clock, today, budget, fresh, sent>>

\* if not codes_data: return []; else the claims of the caller u among the
\* listed ids are queried, the response is built from copies of the items
\* and returned (x_user_id is first used here); the slot is free again
ListPersonalize(p, u) ==
    /\ proc[p].op = "list" /\ proc[p].pc = "personalize"
    /\ sent' = IF sent = NotRecorded THEN sent
               ELSE [user |-> u, hit |-> proc[p].hit,
                     response |-> Personalize(proc[p].data, claims, u)]
    /\ proc' = [proc EXCEPT ![p] = Idle]
    /\ UNCHANGED <<backend, codes, claims, LIST_CACHE, clock, today, budget,
                   fresh, lastHit>>

\* ------------------------------------------------------------------------
\* Specifications
\* ------------------------------------------------------------------------
ClaimStep ==
    \/ \E p \in ClaimProcs, u \in Users, id \in CodeIds : ClaimStart(p, u, id)
    \/ \E p \in ClaimProcs : ClaimFetch(p)
    \/ \E p \in ClaimProcs : ClaimCount(p)
    \/ \E p \in ClaimProcs : ClaimCommit(p)

CreateStep ==
    \/ \E p \in CreateProcs, u \in Users, id \in CodeIds, content \in Contents :
          CreateStart(p, u, id, content)
    \/ \E p \in CreateProcs : CreateDedup(p)
    \/ \E p \in CreateProcs : CreateCommit(p)
    \/ \E p \in CreateProcs : CreateInvalidate(p)

ListStep ==
    \/ \E p \in ListProcs : ListStart(p)
    \/ \E p \in ListProcs : ListHit(p)
    \/ \E p \in ListProcs : ListQuery(p)
    \/ \E p \in ListProcs : ListStoreData(p)
    \/ \E p \in ListProcs : ListStoreTs(p)
    \/ \E p \in ListProcs, u \in Users : ListPersonalize(p, u)

\* claim arbitration: claim and create requests
InitClaims ==
    /\ InitCommon
    /\ budget = [claim |-> NumClaimReqs, create |-> NumCreateReqs - 1, list |-> 0,
                 tick |-> MaxTicks]
    /\ sent = NotRecorded

NextClaims == ClaimStep \/ CreateStep \/ Midnight

SpecClaims == InitClaims /\ [][NextClaims]_vars

\* claim arbitration under fair scheduling: a thread that can take a step
\* is eventually scheduled, and a request that waits for a row lock gets it
\* once the holder's session has closed
ClaimRuns(p) == ClaimFetch(p) \/ ClaimCount(p) \/ ClaimCommit(p)

NextLive == ClaimStep \/ CreateStep

SpecLive ==
    /\ InitClaims
    /\ [][NextLive]_vars
    /\ \A p \in ClaimProcs : WF_vars(ClaimRuns(p))

\* create arbitration: create requests of users, one of whom is one post
\* short of the daily limit
InitCreates ==
    /\ backend \in {"sqlite", "postgresql"}
    /\ codes = PostedCodes(DAILY_POST_LIMIT - 1)
    /\ claims = <<>>
    /\ LIST_CACHE = [data |-> <<>>, timestamp |-> 0]
    /\ clock = StartTime
    /\ today = StartDay
    /\ proc = [p \in Procs |-> Idle]
    /\ fresh = {}
    /\ lastHit = NoHit
    /\ budget = [claim |-> 0, create |-> NumCreateReqs, list |-> 0,
                 tick |-> MaxTicks]
    /\ sent = NotRecorded

NextCreates == CreateStep \/ Midnight

SpecCreates == InitCreates /\ [][NextCreates]_vars

\* the list cache: list requests racing one another and a claim; fewer list
\* requests with a claim and the create requests; list requests over time
Workloads ==
    {[claim |-> 1, create |-> 0, list |-> NumListReqs, tick |-> 0],
     [claim |-> 1, create |-> NumCreateReqs - 1, list |-> NumListReqs - 2, tick |-> 0],
     [claim |-> 1, create |-> 0, list |-> NumListReqs - 1, tick |-> MaxTicks]}

Init ==
    /\ InitCommon
    /\ budget \in Workloads
    /\ sent = NotRecorded

Next == ClaimStep \/ CreateStep \/ ListStep \/ Tick

Spec == Init /\ [][Next]_vars

\* personalization: a claim between list requests over time, the responses
\* recorded
InitView ==
    /\ InitCommon
    /\ budget = [claim |-> 1, create |-> 0, list |-> NumListReqs - 2,
                 tick |-> MaxTicks]
    /\ sent = NoneSent

NextView == ClaimStep \/ ListStep \/ Tick

SpecView == InitView /\ [][NextView]_vars

\* ------------------------------------------------------------------------
\* Properties of claim arbitration (SpecClaims)
\* ------------------------------------------------------------------------
ClaimDone(p) == proc[p].op = "claim" /\ proc[p].pc = "done"

\* p returns in this step
Returns(p) == proc[p].pc \notin {"idle", "done"} /\ proc'[p].pc = "done"

\* the request would have succeeded had it run alone when it arrived
Eligible0(p) ==
    /\ proc[p].uses0 >= 1
    /\ codes[proc[p].code_id].creator_id # proc[p].user
    /\ proc[p].count0 < DAILY_CLAIM_LIMIT
    /\ ~proc[p].had0

Succeeded(S) == {p \in S : proc[p].out = "ok"}

\* C1: in every reachable state, on the row-locking backend and on the
\* embedded one, under any interleaving of claim requests, every code's
\* remaining_uses is >= 0.
C1_NeverNegative ==
    \A id \in DOMAIN codes : codes[id].remaining_uses >= 0

\* two requests read the last use of a code without a lock and both committed
C1_Witness ==
    /\ backend = "sqlite"
    /\ \E p, q \in ClaimProcs :
         /\ p # q /\ ClaimDone(p) /\ ClaimDone(q)
         /\ proc[p].code_id = proc[q].code_id
         /\ proc[p].out = "ok" /\ proc[q].out = "ok"
         /\ proc[p].uses0 = 1 /\ proc[q].uses0 = 1
         /\ codes[proc[p].code_id].remaining_uses = 0

\* C2 (as stated): when N > k eligible distinct users claim a code with
\* remaining_uses = k concurrently, exactly k succeed, the others fail with
\* Exhausted and remaining_uses ends at 0, on either backend.
C2_ExactlyKSucceed ==
    \A id \in DOMAIN codes :
      LET G == {p \in ClaimProcs : proc[p].op = "claim" /\ proc[p].code_id = id}
      IN  ( /\ G = ClaimProcs
            /\ \A p \in G : ClaimDone(p) /\ Eligible0(p)
                            /\ proc[p].out # "ClaimSystemBusy"
            /\ \A p, q \in G : /\ proc[p].uses0 = proc[q].uses0
                               /\ (p # q => proc[p].user # proc[q].user)
            /\ \A p \in G : Cardinality(G) > proc[p].uses0 )
          => /\ \A p \in G : Cardinality(Succeeded(G)) = proc[p].uses0
             /\ \A p \in G \ Succeeded(G) : proc[p].out = "Exhausted"
             /\ codes[id].remaining_uses = 0

\* two requests of one user on one code, each eligible on arrival, and no
\* other claim request
SameUserRace(p, q) ==
    /\ p # q /\ ClaimDone(p) /\ ClaimDone(q)
    /\ proc[p].user = proc[q].user /\ proc[p].code_id = proc[q].code_id
    /\ proc[p].code_id \in DOMAIN codes
    /\ Eligible0(p) /\ Eligible0(q)
    /\ \A r \in ClaimProcs \ {p, q} : proc[r].pc = "idle"

\* C3 (as stated): of two concurrent claims of one user on one code, each of
\* which would succeed alone, exactly one succeeds, the other fails with
\* AlreadyClaimed, and remaining_uses ends exactly one lower.
C3_OtherAlreadyClaimed ==
    \A p, q \in ClaimProcs :
      ( /\ SameUserRace(p, q)
        /\ proc[p].out # "ClaimSystemBusy" /\ proc[q].out # "ClaimSystemBusy" )
      => /\ Cardinality(Succeeded({p, q})) = 1
         /\ \A r \in {p, q} \ Succeeded({p, q}) : proc[r].out = "AlreadyClaimed"
         /\ codes[proc[p].code_id].remaining_uses = proc[p].uses0 - 1

\* C3 (amended): of two such requests at most one succeeds and at most one
\* claim record is added, exactly one unless a storage failure
\* (ClaimSystemBusy) hits; the other fails with AlreadyClaimed, or with
\* Exhausted when remaining_uses was 1, or with ClaimQuotaExceeded when the
\* user was one claim short of the daily limit; remaining_uses ends lower by
\* the number of claim records added: one, not two.
C3_SameUserOnce ==
    \A p, q \in ClaimProcs :
      SameUserRace(p, q) =>
        LET ok == Succeeded({p, q})
            busy == {r \in {p, q} : proc[r].out = "ClaimSystemBusy"}
            added == Cardinality(ClaimsBy(claims, proc[p].user, proc[p].code_id))
        IN  /\ Cardinality(ok) <= added /\ added <= 1
            /\ busy = {} => Cardinality(ok) = 1
            /\ \A r \in {p, q} \ ok :
                 \/ proc[r].out \in {"AlreadyClaimed", "ClaimSystemBusy"}
                 \/ proc[r].out = "Exhausted" /\ proc[r].uses0 = 1
                 \/ /\ proc[r].out = "ClaimQuotaExceeded"
                    /\ proc[r].count0 = DAILY_CLAIM_LIMIT - 1
            /\ codes[proc[p].code_id].remaining_uses = proc[p].uses0 - added

\* both requests passed the checks before either committed: the constraint
\* on (user_id, code_id) rejected the second insert
C3_Witness ==
    \E p, q \in ClaimProcs :
      /\ SameUserRace(p, q)
      /\ proc[p].out = "ok" /\ proc[q].out = "AlreadyClaimed"
      /\ codes[proc[p].code_id].remaining_uses = proc[p].uses0 - 1

\* C4 (as stated): for every code, remaining_uses equals the initial
\* allowance minus the number of claim records that reference the code.
C4_UsesMatchClaims ==
    \A id \in DOMAIN codes :
      codes[id].remaining_uses = INITIAL_USES - Cardinality(ClaimsOf(claims, id))

\* C5: the Claim Store holds at most one claim record for each
\* (user_id, code_id) pair, for any interleaving of claim requests.
C5_UniqueClaims ==
    \A i, j \in 1..Len(claims) :
      (claims[i].user_id = claims[j].user_id /\ claims[i].code_id = claims[j].code_id)
        => i = j

\* a second insert of the pair was attempted by a request that had passed
\* every check, and was rejected
C5_Witness ==
    \E p \in ClaimProcs :
      /\ ClaimDone(p) /\ ~proc[p].had0 /\ proc[p].out = "AlreadyClaimed"
      /\ Cardinality(ClaimsBy(claims, proc[p].user, proc[p].code_id)) = 1

\* a claim request of a user who had a committed claim on the code when the
\* request arrived
Repeat(p) == proc[p].op = "claim" /\ proc[p].had0

\* C6 (as stated): a claim request by a user who already has a committed
\* claim record on the code fails with AlreadyClaimed and leaves
\* remaining_uses unchanged, whatever remaining_uses and the user's claim
\* count of the day are.
C6_RepeatAlreadyClaimed ==
    [][\A p \in ClaimProcs :
         (Repeat(p) /\ Returns(p)) =>
            (proc'[p].out = "AlreadyClaimed" /\ codes' = codes)]_vars

\* C6 (amended): such a request never succeeds and changes neither
\* remaining_uses nor the Claim Store; it fails with Exhausted when the code
\* has no uses left, else with ClaimQuotaExceeded when the user is at the
\* daily limit, else with AlreadyClaimed (or ClaimSystemBusy on a storage
\* failure).
C6_RepeatFails ==
    [][\A p \in ClaimProcs :
         (Repeat(p) /\ Returns(p)) =>
            /\ codes' = codes /\ claims' = claims
            /\ \/ proc'[p].out \in {"AlreadyClaimed", "ClaimSystemBusy"}
               \/ /\ proc'[p].out = "Exhausted"
                  /\ codes[proc[p].code_id].remaining_uses <= 0
               \/ /\ proc'[p].out = "ClaimQuotaExceeded"
                  /\ codes[proc[p].code_id].remaining_uses > 0
                  /\ CountClaims(claims, proc[p].user, proc[p].today)
                       >= DAILY_CLAIM_LIMIT]_vars

\* a repeat was rejected by the constraint, the counter as the first claim
\* left it
C6_Witness ==
    \E p, q \in ClaimProcs :
      /\ ClaimDone(p) /\ proc[p].had0 /\ proc[p].out = "AlreadyClaimed"
      /\ ClaimDone(q) /\ proc[q].out = "ok"
      /\ proc[q].user = proc[p].user /\ proc[q].code_id = proc[p].code_id
      /\ codes[proc[p].code_id].remaining_uses = proc[q].uses0 - 1

\* C7 (as stated): a claim request by the creator of an existing code fails
\* with SelfClaimForbidden for every value of remaining_uses, 0 included,
\* and no claim record of a creator on the own code exists.
C7_SelfClaimForbidden ==
    /\ \A p \in ClaimProcs :
         ( /\ ClaimDone(p) /\ proc[p].uses0 >= 0
           /\ codes[proc[p].code_id].creator_id = proc[p].user )
         => proc[p].out = "SelfClaimForbidden"
    /\ \A i \in 1..Len(claims) :
         codes[claims[i].code_id].creator_id # claims[i].user_id

\* C11 (as stated): a claim request has both of its effects or neither: when
\* it succeeds, exactly one claim record is added and the code's
\* remaining_uses is one lower after the commit than before it; when it
\* fails with any error, ClaimSystemBusy included, the Claim Store and every
\* remaining_uses are as they were.
C11_BothOrNeither ==
    [][\A p \in ClaimProcs :
         Returns(p) =>
            IF proc'[p].out = "ok"
              THEN /\ claims' = Append(claims,
                         [user_id |-> proc[p].user, code_id |-> proc[p].code_id,
                          date_str |-> proc[p].today])
                   /\ codes' = [codes EXCEPT ![proc[p].code_id].remaining_uses = @ - 1]
              ELSE claims' = claims /\ codes' = codes]_vars

\* the user of the claim request p had reached the daily limit when the
\* request arrived
AtClaimLimit(p) == proc[p].op = "claim" /\ proc[p].count0 >= DAILY_CLAIM_LIMIT

\* C13 (as stated): a claim request by a user who already has 3 claim
\* records with today's date_str fails with ClaimQuotaExceeded, creates no
\* claim record and decrements no counter, whatever code the request names.
C13_QuotaWhateverCode ==
    [][\A p \in ClaimProcs :
         (AtClaimLimit(p) /\ Returns(p)) =>
            /\ proc'[p].out = "ClaimQuotaExceeded"
            /\ codes' = codes /\ claims' = claims]_vars

\* C13 (amended): such a request never succeeds, creates no claim record
\* and decrements no counter; it fails with CodeNotFound when the code does
\* not exist, else with Exhausted when the code has no uses left, else with
\* SelfClaimForbidden when the caller created the code, and with
\* ClaimQuotaExceeded in every other case.
C13_QuotaRejects ==
    [][\A p \in ClaimProcs :
         (AtClaimLimit(p) /\ Returns(p)) =>
            LET id == proc[p].code_id IN
            /\ codes' = codes /\ claims' = claims
            /\ IF id \notin DOMAIN codes THEN proc'[p].out = "CodeNotFound"
               ELSE IF proc[p].pc = "fetch" /\ codes[id].remaining_uses <= 0
                 THEN proc'[p].out = "Exhausted"
               ELSE IF codes[id].creator_id = proc[p].user
                 THEN proc'[p].out = "SelfClaimForbidden"
               ELSE proc'[p].out = "ClaimQuotaExceeded"]_vars

\* a user at the limit named a code that exists, has uses left and is not
\* the caller's own, and was rejected for the quota
C13_Witness ==
    \E p \in ClaimProcs :
      /\ ClaimDone(p) /\ proc[p].count0 >= DAILY_CLAIM_LIMIT
      /\ proc[p].out = "ClaimQuotaExceeded"
      /\ proc[p].uses0 > 0 /\ ~proc[p].had0
      /\ codes[proc[p].code_id].remaining_uses = proc[p].uses0

\* C15: a claim request passes through Fetch, Validate, Authorize, Commit in
\* that order; when several failure conditions hold at once it reports the
\* first of CodeNotFound, Exhausted, SelfClaimForbidden, ClaimQuotaExceeded,
\* AlreadyClaimed; it reaches Commit, and only there writes, only when the
\* code exists, remaining_uses > 0 was read, the caller is not the creator
\* and the caller's claim count of the day was read below 3.
C15_CheckOrder ==
    [][/\ \A p \in ClaimProcs :
            LET id == proc[p].code_id
                u == proc[p].user
            IN
            /\ (proc[p].op = "claim" /\ proc[p].pc = "fetch" /\ proc'[p] # proc[p]) =>
                  IF id \notin DOMAIN codes
                    THEN proc'[p].pc = "done" /\ proc'[p].out = "CodeNotFound"
                  ELSE IF codes[id].remaining_uses <= 0
                    THEN proc'[p].pc = "done" /\ proc'[p].out = "Exhausted"
                  ELSE IF codes[id].creator_id = u
                    THEN proc'[p].pc = "done" /\ proc'[p].out = "SelfClaimForbidden"
                  ELSE proc'[p].pc = "count"
                       /\ proc'[p].uses = codes[id].remaining_uses
            /\ (proc[p].op = "claim" /\ proc[p].pc = "count" /\ proc'[p] # proc[p]) =>
                  IF CountClaims(claims, u, proc[p].today) >= DAILY_CLAIM_LIMIT
                    THEN proc'[p].pc = "done" /\ proc'[p].out = "ClaimQuotaExceeded"
                    ELSE proc'[p].pc = "commit"
                         /\ proc'[p].claim_count = CountClaims(claims, u, proc[p].today)
            /\ (proc[p].op = "claim" /\ proc[p].pc = "commit") =>
                  /\ id \in DOMAIN codes /\ proc[p].uses > 0
                  /\ codes[id].creator_id # u
                  /\ proc[p].claim_count < DAILY_CLAIM_LIMIT
                  /\ proc'[p] # proc[p] =>
                        /\ proc'[p].pc = "done"
                        /\ proc'[p].out \in {"ok", "AlreadyClaimed", "ClaimSystemBusy"}
                        /\ proc'[p].out = "AlreadyClaimed" => ClaimsBy(claims, u, id) # {}
       /\ (claims' # claims \/ \E id \in DOMAIN codes : codes'[id] # codes[id]) =>
             \E p \in ClaimProcs :
                proc[p].op = "claim" /\ proc[p].pc = "commit" /\ Returns(p)]_vars

\* the creator claimed the own code after it was used up: two failure
\* conditions held, and the first in the order, Exhausted, was reported
C15_Witness ==
    \E p \in ClaimProcs :
      /\ ClaimDone(p) /\ proc[p].out = "Exhausted"
      /\ proc[p].uses0 = 0
      /\ codes[proc[p].code_id].creator_id = proc[p].user

\* C18: under fair scheduling every claim request that starts ends, in
\* Committed or in a failure, and holds no row lock once it has ended; no
\* request waits forever for a lock, whether the concurrent requests name
\* the same code or different codes.
C18_ClaimsTerminate ==
    /\ [](\A p \in ClaimProcs : ClaimDone(p) => ~proc[p].lock)
    /\ \A p \in ClaimProcs : (proc[p].op = "claim") ~> ClaimDone(p)

\* a request waits for the row lock that another request holds
C18_Witness ==
    \E p, q \in ClaimProcs :
      /\ p # q /\ backend # "sqlite"
      /\ proc[p].op = "claim" /\ proc[p].pc = "fetch"
      /\ proc[q].op = "claim" /\ proc[q].lock
      /\ proc[q].code_id = proc[p].code_id
      /\ LockedByOther(p, proc[p].code_id)

\* C19 (as stated): for every user and calendar date, the number of claim
\* records with that user_id and date_str is at most 3, for any interleaving
\* of the user's concurrent claim requests on different codes.
C19_ClaimQuotaHolds ==
    \A i \in 1..Len(claims) :
      CountClaims(claims, claims[i].user_id, claims[i].date_str) <= DAILY_CLAIM_LIMIT

\* ------------------------------------------------------------------------
\* Properties of create arbitration (SpecCreates)
\* ------------------------------------------------------------------------
\* the create request in slot p arrives in this step
Arrives(p) == proc[p].pc = "idle" /\ proc'[p].op = "create"

CreateDone(p) == proc[p].op = "create" /\ proc[p].pc = "done"

\* C12: a create request by a user who has 5 codes with today's date_str
\* when it arrives fails with PostQuotaExceeded and inserts no code, whatever
\* the submitted id and content are.
C12_PostQuotaExceeded ==
    [][\A p \in CreateProcs :
         /\ ( /\ Arrives(p)
              /\ CountPosts(codes, proc'[p].user, today) >= DAILY_POST_LIMIT )
            => /\ proc'[p].pc = "done" /\ proc'[p].out = "PostQuotaExceeded"
               /\ codes' = codes
         /\ CreateDone(p) => proc'[p] = proc[p]]_vars

\* a request with a fresh id and a well-formed content was rejected for the
\* quota
C12_Witness ==
    \E p \in CreateProcs :
      /\ CreateDone(p) /\ proc[p].out = "PostQuotaExceeded"
      /\ CountPosts(codes, proc[p].user, today) >= DAILY_POST_LIMIT
      /\ proc[p].code_id \notin DOMAIN codes
      /\ ExtractCore(proc[p].content) # <<>>
      /\ ~ExistingCore(codes, ExtractCore(proc[p].content))

\* C14 (as stated): no two codes with remaining_uses > 0 have the same
\* core_code, for any interleaving of concurrent create requests.
C14_UniqueActiveCore ==
    \A a, b \in DOMAIN codes :
      ( /\ codes[a].remaining_uses > 0 /\ codes[b].remaining_uses > 0
        /\ codes[a].core_code = codes[b].core_code )
      => a = b

\* C16 (as stated): a create request is checked in the order format, post
\* quota, duplicate core code, insert, cache invalidation: a request whose
\* content has no match of the pattern fails with InvalidFormat, also when
\* the caller's post count of the day is at the limit, and the cache
\* timestamp is forced to 0 only after the insert has committed.
C16_FormatFirst ==
    [][/\ \A p \in CreateProcs :
            (Arrives(p) /\ ExtractCore(proc'[p].content) = <<>>) =>
               proc'[p].pc = "done" /\ proc'[p].out = "InvalidFormat"
       /\ LIST_CACHE' # LIST_CACHE =>
            \E p \in CreateProcs :
               /\ proc[p].op = "create" /\ Returns(p)
               /\ LIST_CACHE'.timestamp = 0
               /\ proc[p].code_id \in DOMAIN codes
               /\ codes[proc[p].code_id].content = proc[p].content]_vars

\* C20 (as stated): for every user and calendar date, the number of codes
\* with that creator_id and date_str is at most 5, for any interleaving of
\* the user's concurrent create requests.
C20_PostQuotaHolds ==
    \A id \in DOMAIN codes :
      CountPosts(codes, codes[id].creator_id, codes[id].date_str) <= DAILY_POST_LIMIT

\* ------------------------------------------------------------------------
\* Properties of the list cache (Spec)
\* ------------------------------------------------------------------------
\* the list request p holds the listing it is about to return
Returning(p) == proc[p].op = "list" /\ proc[p].pc = "personalize"

Refreshing(p) == proc[p].op = "list" /\ proc[p].pc \in {"query", "storeData", "storeTs"}

ExhaustedIds == AllIds(codes) \ ActiveIds(codes)

\* C8 (as stated): no list call returns a code whose remaining_uses in the
\* Code Store is <= 0 at the time of the call (here: both when the call
\* began and when it returns).
C8_NoExhaustedListed ==
    \A p \in ListProcs :
      Returning(p) => Ids(proc[p].data) \cap proc[p].dead0 \cap ExhaustedIds = {}

\* C8 (amended): no list call returns an entry whose remainingUses is <= 0,
\* and the cached snapshot holds none; a call served from the snapshot may
\* list a code that claims have exhausted since the snapshot was read.
C8_ListedUsesPositive ==
    /\ \A i \in 1..Len(LIST_CACHE.data) : LIST_CACHE.data[i].remainingUses > 0
    /\ \A p \in ListProcs :
         proc[p].op = "list" =>
            \A i \in 1..Len(proc[p].data) : proc[p].data[i].remainingUses > 0

\* a call served from the snapshot returns a code that was exhausted in the
\* store before the call began
C8_Witness ==
    \E p \in ListProcs :
      /\ Returning(p) /\ proc[p].hit
      /\ Ids(proc[p].data) \cap proc[p].dead0 \cap ExhaustedIds # {}
      /\ \A i \in 1..Len(proc[p].data) : proc[p].data[i].remainingUses > 0

\* C9 (as stated): the first list call that starts after a create request
\* returned success returns a listing that contains the created code, also
\* when a refresh raced with the create.
C9_CreateVisibleNext ==
    \A p \in ListProcs :
      Returning(p) => proc[p].mustSee \subseteq Ids(proc[p].data)

\* C10 (as stated): two list calls that hit the cache under the same
\* timestamp, with no successful create between them, return the same
\* shared listing; a list call refreshes only when now - timestamp >= TTL.
C10_StableWithinTTL ==
    \A p \in ListProcs :
      /\ ( /\ Returning(p) /\ proc[p].hit
           /\ proc[p].prev # NoHit /\ proc[p].prev.ts = proc[p].ts )
         => proc[p].data = proc[p].prev.data
      /\ Refreshing(p) => proc[p].now - proc[p].ts >= CACHE_TTL

\* C10 (amended): two list calls that hit the cache under the same
\* timestamp, with no successful create between them and no list call
\* storing a refreshed snapshot between them, return the same shared
\* listing, also when claims committed between the two; a list call
\* refreshes only when now - timestamp >= TTL.
C10_StableUntilStored ==
    \A p \in ListProcs :
      /\ ( /\ Returning(p) /\ proc[p].hit
           /\ proc[p].prev # NoHit /\ proc[p].prev.ts = proc[p].ts
           /\ ~proc[p].prev.stored )
         => proc[p].data = proc[p].prev.data
      /\ Refreshing(p) => proc[p].now - proc[p].ts >= CACHE_TTL

\* the second of two hits returns the listing of the first although a claim
\* has lowered a listed counter in the store since
C10_Witness ==
    \E p \in ListProcs :
      /\ Returning(p) /\ proc[p].hit
      /\ proc[p].prev # NoHit /\ proc[p].prev.ts = proc[p].ts /\ ~proc[p].prev.stored
      /\ proc[p].data = proc[p].prev.data
      /\ \E i \in 1..Len(proc[p].data) :
           codes[proc[p].data[i].id].remaining_uses # proc[p].data[i].remainingUses

\* ------------------------------------------------------------------------
\* Properties of personalization (SpecView)
\* ------------------------------------------------------------------------
\* the list request p sends its response in this step
Responds(p) == Returning(p) /\ proc'[p] = Idle

SharedFields == {"id", "content", "remainingUses", "createdAt"}

\* C17: in every list result, also one served from the cached snapshot,
\* each entry's isUsed says whether the Claim Store holds a claim record of
\* the caller on that code when the result is computed and its isOwn says
\* whether the caller created the code; the entries are otherwise those of
\* the shared listing, and computing the flags leaves the cached snapshot,
\* which holds no flags, as it was.
C17_FlagsPerCaller ==
    [][\A p \in ListProcs :
         Responds(p) =>
            LET d == proc[p].data
                r == sent'.response
                u == sent'.user
            IN  /\ Len(r) = Len(d)
                /\ \A i \in 1..Len(d) :
                     /\ DOMAIN r[i] = SharedFields \cup {"isOwn", "isUsed"}
                     /\ \A f \in SharedFields : r[i][f] = d[i][f]
                     /\ r[i].isUsed <=>
                          \E j \in 1..Len(claims) :
                             claims[j].user_id = u /\ claims[j].code_id = d[i].id
                     /\ r[i].isOwn <=> codes[d[i].id].creator_id = u
                /\ LIST_CACHE' = LIST_CACHE
                /\ \A i \in 1..Len(LIST_CACHE.data) :
                     DOMAIN LIST_CACHE.data[i] = SharedFields \cup {"creator_id"}]_vars

\* a result served from the snapshot shows the caller's claim that was
\* committed after the snapshot was taken: the entry still has uses left
C17_Witness ==
    /\ sent.hit /\ sent.user = QuotaUser
    /\ codes[SeedId].remaining_uses = 0
    /\ \E i \in 1..Len(sent.response) :
         /\ sent.response[i].id = SeedId /\ sent.response[i].remainingUses > 0
         /\ sent.response[i].isUsed /\ ~sent.response[i].isOwn
    /\ LIST_CACHE.data # <<>>

====
